---- MODULE Spec2Model ----
(***************************************************************************)
(* Smart Shopkeeper Assistant (src/app.py): a Streamlit script that is     *)
(* re-run from top to bottom on every user interaction.  The state kept    *)
(* between runs is st.session_state (sales ledger, product list, forced    *)
(* page, stock_<product> entries); every action below is one script run:   *)
(* the widget interaction that triggered it followed by the body of the    *)
(* page that the run displays.                                             *)
(*                                                                         *)
(* Dates are pandas Timestamps, modelled as integer ticks with Day ticks   *)
(* per calendar day, so that a date picked in the date widget is a         *)
(* multiple of Day (midnight) while Timestamp.today() may fall inside a    *)
(* day.  Means and reorder points are exact rationals kept as              *)
(* numerator / denominator.  Text is a sequence of tokens, a token being   *)
(* one blank " " or one word.                                              *)
(***************************************************************************)
EXTENDS Integers, Sequences, FiniteSets, TLC

(***************************************************************************)
(* Bounds of the model                                                     *)
(***************************************************************************)
\* longest ledger a session builds with Add Sale
MaxSales == 2
\* last calendar day the date widget is given (days 0 .. MaxDay)
MaxDay == 3
\* longest ledger drawn as the starting point of the page-level specifications
MaxLedger == 2
\* longest daily series handed to naive_forecast in SpecNaive
MaxSeries == 8

(***************************************************************************)
(* Program constants                                                       *)
(***************************************************************************)
\* pd.Timedelta(days=1), freq='D': ticks per calendar day
Day == 2
\* naive_forecast: window = min(7, len(h))
NaiveWindow == 7
\* sidebar number_input "Forecast Horizon (days)": min_value
MinHorizon == 3
\* sidebar number_input "Lead Time (days)": min_value
MinLead == 1
\* number_input "Fast-mover window (days)": min_value
MinWindow == 7

Pages == {"Sales Entry", "Forecasting", "Inventory Dashboard", "Reports", "Help"}

Blank == " "

DefaultProducts ==
    << <<"Milk">>, <<"Bread">>, <<"Biscuit">>, <<"Chocolate">>, <<"Juice">>,
       <<"Soap">>, <<"Oil">>, <<"Rice">>, <<"Salt">>, <<"Tissue">> >>

(***************************************************************************)
(* Generic helpers (Python / pandas primitives)                            *)
(***************************************************************************)
Min2(a, b) == IF a <= b THEN a ELSE b

Max2(a, b) == IF a >= b THEN a ELSE b

SetMin(S) == CHOOSE x \in S : \A y \in S : x <= y

SetMax(S) == CHOOSE x \in S : \A y \in S : x >= y

Range(s) == {s[i] : i \in DOMAIN s}

\* floor of a tick value to midnight of its calendar day
FloorDay(t) == (t \div Day) * Day

RECURSIVE SumQuantity(_)
\* Series.sum() of the Quantity column of a frame
SumQuantity(rows) ==
    IF rows = <<>> THEN 0
    ELSE Head(rows).Quantity + SumQuantity(Tail(rows))

RECURSIVE SumPredicted(_)
\* Series.sum() of the "Predicted Sales" column
SumPredicted(rows) ==
    IF rows = <<>> THEN 0
    ELSE Head(rows).Predicted + SumPredicted(Tail(rows))

\* faulty variant of tail(n): the whole frame
TailWhole(s, n) == s

\* DataFrame.tail(n)
TailN(s, n) ==
    IF Len(s) <= n THEN s ELSE SubSeq(s, Len(s) - n + 1, Len(s))

\* round() of the non-negative rational num/den: round half to even
RoundHalfEven(num, den) ==
    LET q == num \div den
        r == num % den
    IN  IF 2 * r < den THEN q
        ELSE IF 2 * r > den THEN q + 1
        ELSE IF q % 2 = 0 THEN q ELSE q + 1

RECURSIVE lstrip(_)
lstrip(s) ==
    IF s # <<>> /\ Head(s) = Blank THEN lstrip(Tail(s)) ELSE s

RECURSIVE rstrip(_)
rstrip(s) ==
    IF s # <<>> /\ s[Len(s)] = Blank THEN rstrip(SubSeq(s, 1, Len(s) - 1)) ELSE s

\* str.strip()
strip(s) == rstrip(lstrip(s))

(***************************************************************************)
(* Forecasting page: the daily series of one product                       *)
(***************************************************************************)
\* data[data["Product"] == selected_product]
ProductRows(data, p) == SelectSeq(data, LAMBDA e : e.Product = p)

\* sorted(data["Product"].unique())  (as a set: the selectbox options)
ProductsOf(data) == {data[i].Product : i \in DOMAIN data}

RECURSIVE SortedDates(_)
SortedDates(S) ==
    IF S = {} THEN <<>>
    ELSE LET m == SetMin(S) IN <<m>> \o SortedDates(S \ {m})

\* .groupby("Date")["Quantity"].sum().reset_index().sort_values("Date")
GroupByDateSum(rows) ==
    LET ds == SortedDates({rows[i].Date : i \in DOMAIN rows})
    IN  [i \in 1..Len(ds) |->
            [Date |-> ds[i],
             Quantity |-> SumQuantity(SelectSeq(rows, LAMBDA e : e.Date = ds[i]))]]

\* faulty variant of the gap fill: the grouped frame as it is, no asfreq("D")
AsFreqSkipped(frame) == frame

\* .set_index("Date").asfreq("D").fillna(0).reset_index()
AsFreqFillna(frame) ==
    IF frame = <<>> THEN <<>>
    ELSE LET first == frame[1].Date
             last == frame[Len(frame)].Date
             n == ((last - first) \div Day) + 1
         IN  [i \in 1..n |->
                LET d == first + (i - 1) * Day
                    hit == {j \in DOMAIN frame : frame[j].Date = d}
                IN  [Date |-> d,
                     Quantity |-> IF hit = {} THEN 0
                                  ELSE frame[CHOOSE j \in hit : TRUE].Quantity]]

\* prod_hist of the Forecasting page
ProdHist(data, p) == AsFreqFillna(GroupByDateSum(ProductRows(data, p)))

(***************************************************************************)
(* naive_forecast                                                          *)
(***************************************************************************)
\* h.set_index('Date').resample('D').sum().fillna(0)
ResampleDaySum(h) ==
    LET first == SetMin({FloorDay(h[i].Date) : i \in DOMAIN h})
        last == SetMax({FloorDay(h[i].Date) : i \in DOMAIN h})
        n == ((last - first) \div Day) + 1
    IN  [i \in 1..n |->
            LET d == first + (i - 1) * Day
            IN  [Date |-> d,
                 Quantity |-> SumQuantity(
                     SelectSeq(h, LAMBDA e : FloorDay(e.Date) = d))]]

\* pd.date_range(start=start, periods=periods, freq='D') paired with preds
ConstantFrame(start, periods, value) ==
    [i \in 1..periods |-> [Date |-> start + (i - 1) * Day, Predicted |-> value]]

naive_forecast(history_df, days_ahead, today) ==
    IF history_df = <<>> THEN ConstantFrame(today, days_ahead, 0)
    ELSE LET h == ResampleDaySum(history_df)
             window == Min2(NaiveWindow, Len(h))
             tail == TailN(h, window)
             pred == IF window = 0 THEN 0
                     ELSE RoundHalfEven(SumQuantity(tail), window)
         IN  ConstantFrame(h[Len(h)].Date + Day, days_ahead, pred)

(***************************************************************************)
(* Forecasting page: Prophet branch.  Prophet is an external library: the  *)
(* outcome of fit / make_future_dataframe / predict is an input of the     *)
(* run, either an exception or one yhat per future day.  yhat is a         *)
(* rational kept as a numerator over YhatDen.                              *)
(***************************************************************************)
YhatDen == 2

ProphetFailed == [ok |-> FALSE, yhat |-> <<>>]

\* yhat over the future days: a line starting at a/YhatDen rising 1/YhatDen a day
ProphetLine(a, periods) == [ok |-> TRUE, yhat |-> [i \in 1..periods |-> a + (i - 1)]]

\* faulty variant of the display: no clip(lower=0)
TrendDisplayUnclipped(prod_hist, periods, ph) ==
    [i \in 1..periods |->
        [Date |-> prod_hist[Len(prod_hist)].Date + i * Day,
         Predicted |-> RoundHalfEven(ph.yhat[i], YhatDen)]]

\* forecast[forecast["ds"] > prod_hist["Date"].max()][["ds","yhat"]]
\*   ... .clip(lower=0).round().astype(int)
TrendDisplay(prod_hist, periods, ph) ==
    [i \in 1..periods |->
        [Date |-> prod_hist[Len(prod_hist)].Date + i * Day,
         Predicted |-> RoundHalfEven(Max2(ph.yhat[i], 0), YhatDen)]]

\* faulty variant of the dispatch: no try / except around the Prophet calls
ChooseForecastUncaught(useProphet, prod_hist, days, ph, today) ==
    IF useProphet /\ Len(prod_hist) >= 2
    THEN IF ph.ok
         THEN [strategy |-> "prophet", attempted |-> TRUE,
               display |-> TrendDisplay(prod_hist, days, ph)]
         ELSE [strategy |-> "raised", attempted |-> TRUE, display |-> <<>>]
    ELSE [strategy |-> "fallback", attempted |-> FALSE,
          display |-> naive_forecast(prod_hist, days, today)]

\* Decide: Prophet or fallback?
ChooseForecast(useProphet, prod_hist, days, ph, today) ==
    IF useProphet /\ Len(prod_hist) >= 2
    THEN IF ph.ok
         THEN [strategy |-> "prophet", attempted |-> TRUE,
               display |-> TrendDisplay(prod_hist, days, ph)]
         ELSE [strategy |-> "fallback_after_failure", attempted |-> TRUE,
               display |-> naive_forecast(prod_hist, days, today)]
    ELSE [strategy |-> "fallback", attempted |-> FALSE,
          display |-> naive_forecast(prod_hist, days, today)]

(***************************************************************************)
(* Forecasting page: inventory suggestion                                  *)
(***************************************************************************)
\* avg_demand = float(forecast_display["Predicted Sales"].mean())
AvgDemand(display) ==
    IF Len(display) > 0 THEN [num |-> SumPredicted(display), den |-> Len(display)]
    ELSE [num |-> 0, den |-> 1]

\* reorder_point = avg_demand * lead_time_days
ReorderPoint(avg, lead) == [num |-> avg.num * lead, den |-> avg.den]

\* current_stock < reorder_point
BelowReorder(current_stock, rp) == current_stock * rp.den < rp.num

\* if current_stock < reorder_point: st.error(LOW STOCK) else: st.success(OK)
StockBanner(current_stock, rp) ==
    IF BelowReorder(current_stock, rp) THEN "LOW STOCK" ELSE "Stock is OK"

\* if stock_key not in st.session_state: st.session_state[stock_key] = 0
InitStockKey(stk, p) == IF p \in DOMAIN stk THEN stk ELSE (p :> 0) @@ stk

\* st.session_state.get(f"stock_{p}", 0)
StockGet(stk, p) == IF p \in DOMAIN stk THEN stk[p] ELSE 0

(***************************************************************************)
(* send_gmail_alert                                                        *)
(***************************************************************************)
NoCreds == [gmail_id |-> FALSE, gmail_pass |-> FALSE, recipient |-> FALSE]

\* secrets_x or x_input, for the three fields (TRUE: a non-empty value)
ResolveCreds(secrets, inputs) ==
    [gmail_id |-> secrets.gmail_id \/ inputs.gmail_id,
     gmail_pass |-> secrets.gmail_pass \/ inputs.gmail_pass,
     recipient |-> secrets.recipient \/ inputs.recipient]

NotCalled == [called |-> FALSE, success |-> FALSE, msg |-> "", smtp |-> FALSE, raised |-> FALSE]

\* faulty variant: the server is contacted before the fields are checked
send_gmail_alert_eager(enable_email, secrets, inputs, smtpOk) ==
    LET c == ResolveCreds(secrets, inputs)
    IN  IF ~enable_email
        THEN [called |-> TRUE, success |-> FALSE, msg |-> "Email alerts disabled",
              smtp |-> FALSE, raised |-> FALSE]
        ELSE IF ~(c.gmail_id /\ c.gmail_pass /\ c.recipient)
        THEN [called |-> TRUE, success |-> FALSE, msg |-> "SMTP fields missing",
              smtp |-> TRUE, raised |-> FALSE]
        ELSE [called |-> TRUE, success |-> smtpOk,
              msg |-> IF smtpOk THEN "Email sent" ELSE "str(e)",
              smtp |-> TRUE, raised |-> FALSE]

\* smtpOk: whether SMTP connect / starttls / login / send_message complete
send_gmail_alert(enable_email, secrets, inputs, smtpOk) ==
    LET c == ResolveCreds(secrets, inputs)
    IN  IF ~enable_email
        THEN [called |-> TRUE, success |-> FALSE, msg |-> "Email alerts disabled",
              smtp |-> FALSE, raised |-> FALSE]
        ELSE IF ~(c.gmail_id /\ c.gmail_pass /\ c.recipient)
        THEN [called |-> TRUE, success |-> FALSE, msg |-> "SMTP fields missing",
              smtp |-> FALSE, raised |-> FALSE]
        ELSE IF smtpOk
        THEN [called |-> TRUE, success |-> TRUE, msg |-> "Email sent",
              smtp |-> TRUE, raised |-> FALSE]
        ELSE [called |-> TRUE, success |-> FALSE, msg |-> "str(e)",
              smtp |-> TRUE, raised |-> FALSE]

(***************************************************************************)
(* Inventory Dashboard: summary                                            *)
(***************************************************************************)
\* recent_from = pd.Timestamp.today() - pd.Timedelta(days=window_days)
RecentFrom(now, window_days) == now - window_days * Day

\* data[data["Date"] >= recent_from]
RecentRows(data, now, window_days) ==
    SelectSeq(data, LAMBDA e : e.Date >= RecentFrom(now, window_days))

\* r["CurrentStock"] <= 0 / r["CurrentStock"] < r["ReorderPoint"]
health_and_color(current_stock, rp) ==
    IF current_stock <= 0 THEN "Critical"
    ELSE IF BelowReorder(current_stock, rp) THEN "Low"
    ELSE "Healthy"

\* one summary row: merge(total_by_product, recent, how="left").fillna(0), the
\* derived columns and Health
SummaryRow(data, stk, p, now, window_days, lead) ==
    LET recent == RecentRows(data, now, window_days)
        sold == IF p \in ProductsOf(recent) THEN SumQuantity(ProductRows(recent, p)) ELSE 0
        avg == [num |-> sold, den |-> IF window_days > 0 THEN window_days ELSE 1]
        rp == ReorderPoint(avg, lead)
        cs == StockGet(stk, p)
    IN  [TotalSold |-> SumQuantity(ProductRows(data, p)),
         SoldRecent |-> sold,
         AvgDailyRecent |-> avg,
         CurrentStock |-> cs,
         ReorderPoint |-> rp,
         Health |-> health_and_color(cs, rp)]

\* faulty variant of the merge: how="inner", products without recent sales dropped
SummaryInner(data, stk, now, window_days, lead) ==
    [p \in ProductsOf(RecentRows(data, now, window_days)) |->
        SummaryRow(data, stk, p, now, window_days, lead)]

\* summary: one row per group of data.groupby("Product")
Summary(data, stk, now, window_days, lead) ==
    [p \in ProductsOf(data) |-> SummaryRow(data, stk, p, now, window_days, lead)]

(***************************************************************************)
(* State                                                                   *)
(***************************************************************************)
VARIABLES
    sales_data,     \* st.session_state.sales_data: sequence of [Date, Product, Quantity]
    product_list,   \* st.session_state.product_list
    forced_page,    \* st.session_state.forced_page ("None" or a page)
    sidebar_page,   \* value of the sidebar "Menu" selectbox
    stock,          \* st.session_state["stock_<product>"]: product -> value, set keys only
    USE_PROPHET,    \* module flag: Prophet could be imported
    page,           \* the page the last run displayed
    stopped,        \* the last run ended in st.stop() (nothing below it was rendered)
    fc,             \* what the Forecasting page displayed in the last run
    dash,           \* what the Inventory Dashboard displayed in the last run
    run             \* the interaction that triggered the last run

vars == <<sales_data, product_list, forced_page, sidebar_page, stock, USE_PROPHET,
          page, stopped, fc, dash, run>>

\* the interaction behind a run; text, qty and date are the Add Sale fields
Trigger(kind) == [kind |-> kind, text |-> <<>>, qty |-> 0, date |-> 0]

NoForecastInput ==
    [product |-> <<>>, days |-> 0, lead |-> 0, enable_email |-> FALSE,
     ph |-> ProphetFailed, now |-> 0]

NoClick == [clicked |-> FALSE, secrets |-> NoCreds, inputs |-> NoCreds, smtpOk |-> FALSE]

NoDashInput == [now |-> 0, window_days |-> 0, lead |-> 0]

FcNone ==
    [shown |-> FALSE, input |-> NoForecastInput, prod_hist |-> <<>>,
     strategy |-> "none", attempted |-> FALSE, display |-> <<>>,
     avg_demand |-> [num |-> 0, den |-> 1], reorder_point |-> [num |-> 0, den |-> 1],
     current_stock |-> 0, banner |-> "", alert_offered |-> FALSE, click |-> NoClick,
     alert |-> NotCalled]

DashNone == [shown |-> FALSE, input |-> NoDashInput, summary |-> <<>>]

(***************************************************************************)
(* Page bodies                                                             *)
(***************************************************************************)
\* faulty variant: the sidebar selection always decides the page
DisplayedPageSidebar(forced, sidebar) == sidebar

\* page = st.session_state.forced_page if st.session_state.forced_page else sidebar_page
DisplayedPage(forced, sidebar) == IF forced # "None" THEN forced ELSE sidebar

\* if page == "Forecasting": ...
ForecastingBody(data, stk, useProphet, in, click) ==
    IF data = <<>>
    THEN [stock |-> stk, fc |-> FcNone, dash |-> DashNone, stopped |-> TRUE]
    ELSE LET prod_hist == ProdHist(data, in.product)
             f == ChooseForecast(useProphet, prod_hist, in.days, in.ph, in.now)
             avg == AvgDemand(f.display)
             rp == ReorderPoint(avg, in.lead)
             stk1 == InitStockKey(stk, in.product)
             cs == stk1[in.product]
             offered == BelowReorder(cs, rp) /\ in.enable_email
         IN  [stock |-> stk1,
              fc |-> [shown |-> TRUE, input |-> in, prod_hist |-> prod_hist,
                      strategy |-> f.strategy, attempted |-> f.attempted,
                      display |-> f.display,
                      avg_demand |-> avg, reorder_point |-> rp,
                      current_stock |-> cs, banner |-> StockBanner(cs, rp),
                      alert_offered |-> offered,
                      click |-> IF offered /\ click.clicked THEN click ELSE NoClick,
                      alert |-> IF offered /\ click.clicked
                                THEN send_gmail_alert(in.enable_email, click.secrets,
                                                      click.inputs, click.smtpOk)
                                ELSE NotCalled],
              dash |-> DashNone, stopped |-> FALSE]

\* faulty variant: the dashboard stores the CurrentStock default of every product
DashboardBodyStoring(data, stk, din) ==
    IF data = <<>>
    THEN [stock |-> stk, fc |-> FcNone, dash |-> DashNone, stopped |-> TRUE]
    ELSE [stock |-> [p \in ProductsOf(data) \cup DOMAIN stk |-> StockGet(stk, p)],
          fc |-> FcNone,
          dash |-> [shown |-> TRUE, input |-> din,
                    summary |-> Summary(data, stk, din.now, din.window_days, din.lead)],
          stopped |-> FALSE]

\* if page == "Inventory Dashboard": ...
DashboardBody(data, stk, din) ==
    IF data = <<>>
    THEN [stock |-> stk, fc |-> FcNone, dash |-> DashNone, stopped |-> TRUE]
    ELSE [stock |-> stk, fc |-> FcNone,
          dash |-> [shown |-> TRUE, input |-> din,
                    summary |-> Summary(data, stk, din.now, din.window_days, din.lead)],
          stopped |-> FALSE]

\* the body of the displayed page (Sales Entry, Reports and Help display the
\* ledger and keep no state)
Body(pg, data, stk, useProphet, in, click, din) ==
    IF pg = "Forecasting" THEN ForecastingBody(data, stk, useProphet, in, click)
    ELSE IF pg = "Inventory Dashboard" THEN DashboardBody(data, stk, din)
    ELSE [stock |-> stk, fc |-> FcNone, dash |-> DashNone, stopped |-> FALSE]

(***************************************************************************)
(* Inputs of a run.  E is the environment of a specification: the values   *)
(* its runs draw for the widgets, the clock, Prophet and the mail server.  *)
(***************************************************************************)
\* the Prophet outcomes a run can meet: none is drawn when Prophet is not called,
\* and the same fit on the same series and horizon gives the same result
ProphetInputs(E, data, useProphet, p, days) ==
    IF ~(useProphet /\ Len(ProdHist(data, p)) >= 2) THEN {ProphetFailed}
    ELSE IF fc.shown /\ fc.attempted /\ fc.input.product = p /\ fc.input.days = days
              /\ fc.prod_hist = ProdHist(data, p)
    THEN {fc.input.ph}
    ELSE {ProphetFailed} \cup {ProphetLine(a, days) : a \in E.yhat0}

ForecastInputs(E, pg, data, useProphet) ==
    IF pg # "Forecasting" \/ data = <<>> THEN {NoForecastInput}
    ELSE UNION {
            {[product |-> p, days |-> d, lead |-> l, enable_email |-> en,
              ph |-> ph, now |-> 0] : ph \in ProphetInputs(E, data, useProphet, p, d)}
            : p \in ProductsOf(data), d \in E.days, l \in E.leads, en \in E.enable}

DashInputs(E, pg, data) ==
    IF pg # "Inventory Dashboard" \/ data = <<>> THEN {NoDashInput}
    ELSE {[now |-> n, window_days |-> w, lead |-> l] :
            n \in E.nows, w \in E.windows, l \in E.leads}

(***************************************************************************)
(* One script run: the session state after the triggering interaction     *)
(* (sd, pl, fp, sp, stk), then the displayed page's body.                  *)
(***************************************************************************)
ScriptRun(r, sd, pl, fp, sp, stk, in, click, din) ==
    LET pg == DisplayedPage(fp, sp)
        b == Body(pg, sd, stk, USE_PROPHET, in, click, din)
    IN  /\ sales_data' = sd
        /\ product_list' = pl
        /\ forced_page' = fp
        /\ sidebar_page' = sp
        /\ page' = pg
        /\ stock' = b.stock
        /\ fc' = b.fc
        /\ dash' = b.dash
        /\ stopped' = b.stopped
        /\ run' = r
        /\ UNCHANGED USE_PROPHET

\* sidebar "Menu" selectbox changed to p
SelectSidebar(p, E) ==
    /\ p # sidebar_page
    /\ LET pg == DisplayedPage(forced_page, p)
       IN  \E in \in ForecastInputs(E, pg, sales_data, USE_PROPHET),
              din \in DashInputs(E, pg, sales_data) :
             ScriptRun(Trigger("widget"), sales_data, product_list, forced_page, p,
                       stock, in, NoClick, din)

\* bottom navigation button: forced_page = target; st.experimental_rerun()
NavClick(target, E) ==
    /\ ~stopped
    /\ \E in \in ForecastInputs(E, target, sales_data, USE_PROPHET),
          din \in DashInputs(E, target, sales_data) :
         ScriptRun(Trigger("nav"), sales_data, product_list, target, sidebar_page,
                   stock, in, NoClick, din)

\* st.session_state.product_list after "Add product" with new_prod = txt
AddProductList(pl, txt) ==
    IF strip(txt) # <<>> /\ strip(txt) \notin Range(pl) THEN Append(pl, strip(txt)) ELSE pl

AddProduct(txt) ==
    /\ page = "Sales Entry"
    /\ ScriptRun(Trigger("add_product"), sales_data, AddProductList(product_list, txt),
                 forced_page, sidebar_page, stock, NoForecastInput, NoClick, NoDashInput)

\* faulty variant of Add Sale: no check of product.strip()
AddSaleLedgerUnchecked(sd, product, qty, date) ==
    Append(sd, [Date |-> date, Product |-> strip(product), Quantity |-> qty])

\* st.session_state.sales_data after "Add Sale" with the widgets' product, qty, date
AddSaleLedger(sd, product, qty, date) ==
    IF strip(product) = <<>> THEN sd
    ELSE Append(sd, [Date |-> date, Product |-> strip(product), Quantity |-> qty])

AddSale(product, qty, date) ==
    /\ page = "Sales Entry"
    /\ Len(sales_data) < MaxSales
    /\ ScriptRun([kind |-> "add_sale", text |-> product, qty |-> qty, date |-> date], AddSaleLedger(sales_data, product, qty, date),
                 product_list, forced_page, sidebar_page, stock,
                 NoForecastInput, NoClick, NoDashInput)

\* Forecasting page re-run after a change of the product selectbox or of a
\* sidebar setting
ForecastSettings(E) ==
    /\ page = "Forecasting"
    /\ fc.shown
    /\ \E in \in ForecastInputs(E, page, sales_data, USE_PROPHET) :
         /\ in # fc.input
         /\ ScriptRun(Trigger("widget"), sales_data, product_list, forced_page,
                      sidebar_page, stock, in, NoClick, NoDashInput)

\* number_input "Current stock for <product>" (key=stock_key) set to v
EditStock(v) ==
    /\ page = "Forecasting"
    /\ fc.shown
    /\ v # stock[fc.input.product]
    /\ ScriptRun(Trigger("edit_stock"), sales_data, product_list, forced_page, sidebar_page,
                 [stock EXCEPT ![fc.input.product] = v], fc.input, NoClick, NoDashInput)

\* button "Send Gmail Alert"
SendAlert(secrets, inputs, smtpOk) ==
    /\ page = "Forecasting"
    /\ fc.shown
    /\ fc.alert_offered
    /\ ScriptRun(Trigger("send_alert"), sales_data, product_list, forced_page, sidebar_page,
                 stock, fc.input,
                 [clicked |-> TRUE, secrets |-> secrets, inputs |-> inputs,
                  smtpOk |-> smtpOk],
                 NoDashInput)

\* Inventory Dashboard re-run: window or lead time changed, or the clock moved on
DashboardSettings(E) ==
    /\ page = "Inventory Dashboard"
    /\ dash.shown
    /\ \E din \in DashInputs(E, page, sales_data) :
         /\ din # dash.input
         /\ ScriptRun(Trigger("widget"), sales_data, product_list, forced_page,
                      sidebar_page, stock, NoForecastInput, NoClick, din)

(***************************************************************************)
(* Input sets                                                              *)
(***************************************************************************)
\* what is typed into the text_input "Product name to add"
TextInputs == {<<>>, <<Blank>>, <<"Milk">>, <<Blank, "Tea", Blank>>}

\* number_input "Quantity Sold" (min_value=1, step=1)
Quantities == {1, 2}

\* date_input "Date": midnight of a calendar day
Dates == {d * Day : d \in 0..MaxDay}

\* the "Product" and "Quantity Sold" fields at a click on Add Sale
SaleInputs ==
    {[product |-> <<>>, qty |-> 1], [product |-> <<Blank>>, qty |-> 2],
     [product |-> <<"Milk">>, qty |-> 1], [product |-> <<Blank, "Tea", Blank>>, qty |-> 2]}

\* number_input "Current stock" (min_value=0)
StockInputs == {0, 1}

FullCreds == [gmail_id |-> TRUE, gmail_pass |-> TRUE, recipient |-> TRUE]

\* st.secrets, the sidebar fields and the mail server met by one click
AlertInputs ==
    {[secrets |-> NoCreds, inputs |-> NoCreds, smtpOk |-> TRUE],
     [secrets |-> [gmail_id |-> TRUE, gmail_pass |-> FALSE, recipient |-> TRUE],
      inputs |-> [gmail_id |-> FALSE, gmail_pass |-> FALSE, recipient |-> TRUE],
      smtpOk |-> TRUE],
     [secrets |-> [gmail_id |-> TRUE, gmail_pass |-> FALSE, recipient |-> FALSE],
      inputs |-> [gmail_id |-> FALSE, gmail_pass |-> TRUE, recipient |-> TRUE],
      smtpOk |-> TRUE],
     [secrets |-> FullCreds, inputs |-> NoCreds, smtpOk |-> FALSE]}

\* a session that has not left the Sales Entry page
Fresh ==
    /\ product_list = DefaultProducts
    /\ forced_page = "None"
    /\ sidebar_page = "Sales Entry"
    /\ stock = <<>>
    /\ page = "Sales Entry"
    /\ stopped = FALSE
    /\ fc = FcNone
    /\ dash = DashNone
    /\ run = Trigger("start")

(***************************************************************************)
(* Spec: the session, every interaction of the app from a fresh session    *)
(***************************************************************************)
SessionEnv ==
    [days |-> {MinHorizon}, leads |-> {MinLead}, enable |-> BOOLEAN,
     yhat0 |-> {1}, windows |-> {MinWindow},
     nows |-> {0, (MinWindow + 1) * Day + 1}]

Init ==
    /\ sales_data = <<>>
    /\ USE_PROPHET = FALSE
    /\ Fresh

Next ==
    \/ \E p \in Pages : SelectSidebar(p, SessionEnv)
    \/ \E t \in Pages : NavClick(t, SessionEnv)
    \/ \E txt \in TextInputs : AddProduct(txt)
    \/ \E s \in SaleInputs : AddSale(s.product, s.qty, 0)
    \/ ForecastSettings(SessionEnv)
    \/ \E v \in StockInputs : EditStock(v)
    \/ \E a \in AlertInputs : SendAlert(a.secrets, a.inputs, a.smtpOk)
    \/ DashboardSettings(SessionEnv)

Spec == Init /\ [][Next]_vars

(***************************************************************************)
(* Ledgers a session can have built when a page is opened                  *)
(***************************************************************************)
LedgerEvents ==
    {[Date |-> d, Product |-> <<"Milk">>, Quantity |-> q] : d \in Dates, q \in Quantities}
    \cup {[Date |-> Day, Product |-> <<"Tea">>, Quantity |-> 1]}

\* the ledgers of 1..maxLen events
LedgerInputs(maxLen) == UNION {[1..n -> LedgerEvents] : n \in 1..maxLen}

(***************************************************************************)
(* SpecForecast: the Forecasting page opened on a ledger                   *)
(***************************************************************************)
ForecastEnv ==
    [days |-> {MinHorizon, MinHorizon + 1}, leads |-> {MinLead}, enable |-> {FALSE},
     yhat0 |-> {-3, 1}, windows |-> {MinWindow}, nows |-> {0}]

InitForecast ==
    /\ sales_data \in LedgerInputs(MaxLedger)
    /\ USE_PROPHET \in BOOLEAN
    /\ Fresh

NextForecast ==
    \/ SelectSidebar("Forecasting", ForecastEnv)
    \/ ForecastSettings(ForecastEnv)

SpecForecast == InitForecast /\ [][NextForecast]_vars

(***************************************************************************)
(* SpecDashboard: the Inventory Dashboard opened on a ledger and a stock   *)
(* map left by earlier visits of the Forecasting page                      *)
(***************************************************************************)
DashboardEnv ==
    [days |-> {MinHorizon}, leads |-> {MinLead, MinWindow}, enable |-> {FALSE},
     yhat0 |-> {1}, windows |-> {MinWindow},
     nows |-> {0, (MinWindow + 1) * Day, (MinWindow + 1) * Day + 1}]

StockMaps(data) ==
    UNION {[P -> {0, 1, 2}] : P \in SUBSET ProductsOf(data)}

InitDashboard ==
    /\ sales_data \in LedgerInputs(MaxLedger)
    /\ USE_PROPHET = FALSE
    /\ product_list = DefaultProducts
    /\ forced_page = "None"
    /\ sidebar_page = "Sales Entry"
    /\ stock \in StockMaps(sales_data)
    /\ page = "Sales Entry"
    /\ stopped = FALSE
    /\ fc = FcNone
    /\ dash = DashNone
    /\ run = Trigger("start")

NextDashboard ==
    \/ SelectSidebar("Inventory Dashboard", DashboardEnv)
    \/ DashboardSettings(DashboardEnv)

SpecDashboard == InitDashboard /\ [][NextDashboard]_vars

(***************************************************************************)
(* SpecNaive: naive_forecast applied to a daily series                     *)
(***************************************************************************)
\* gap-filled daily series starting on day 0, and the empty frame
SeriesInputs(maxLen) ==
    UNION {{[i \in 1..n |-> [Date |-> (i - 1) * Day, Quantity |-> q[i]]] :
                q \in [1..n -> 0..2]} : n \in 0..maxLen}

InitNaive ==
    /\ sales_data = <<>>
    /\ USE_PROPHET = FALSE
    /\ product_list = DefaultProducts
    /\ forced_page = "None"
    /\ sidebar_page = "Sales Entry"
    /\ stock = <<>>
    /\ page = "Sales Entry"
    /\ stopped = FALSE
    /\ fc \in {[FcNone EXCEPT !.prod_hist = h] : h \in SeriesInputs(MaxSeries)}
    /\ dash = DashNone
    /\ run = Trigger("start")

\* forecast_display = naive_forecast(prod_hist, int(forecast_days))
CallNaive(days, today) ==
    /\ fc.strategy = "none"
    /\ fc' = [fc EXCEPT !.strategy = "fallback",
                        !.input = [NoForecastInput EXCEPT !.days = days, !.now = today],
                        !.display = naive_forecast(fc.prod_hist, days, today)]
    /\ UNCHANGED <<sales_data, product_list, forced_page, sidebar_page, stock,
                   USE_PROPHET, page, stopped, dash, run>>

NextNaive == \E d \in {MinHorizon, MinHorizon + 1} : CallNaive(d, Day + 1)

SpecNaive == InitNaive /\ [][NextNaive]_vars

(***************************************************************************)
(* Properties                                                              *)
(***************************************************************************)
RECURSIVE SumAt(_, _)
\* sum of the quantities of the rows of a frame at the positions I
SumAt(frame, I) ==
    IF I = {} THEN 0
    ELSE LET i == CHOOSE k \in I : TRUE
         IN  frame[i].Quantity + SumAt(frame, I \ {i})

\* positions of the ledger events of product p
EventsOf(p) == {i \in DOMAIN sales_data : sales_data[i].Product = p}

\* dates of the ledger events of product p
EventDates(p) == {sales_data[i].Date : i \in EventsOf(p)}

\* C1: the forecast displayed by the Forecasting page has exactly H points, every
\* predicted quantity is an integer >= 0, and its dates are the H consecutive days
\* after the last date of the product's series, whichever strategy produced it.
C1_ForecastShape ==
    fc.shown =>
        LET H == fc.input.days
            last == SetMax(EventDates(fc.input.product))
        IN  /\ Len(fc.display) = H
            /\ fc.strategy \in {"prophet", "fallback", "fallback_after_failure"}
            /\ \A i \in 1..H :
                 /\ fc.display[i].Predicted \in Nat
                 /\ fc.display[i].Date = last + i * Day

\* C1 witness: a Prophet forecast over a series of several days, one prediction
\* clipped to 0 or rounded down to it and a later one positive
C1_Witness ==
    /\ fc.shown
    /\ fc.strategy = "prophet"
    /\ Len(fc.prod_hist) >= 3
    /\ fc.input.days = MinHorizon + 1
    /\ fc.display[1].Predicted = 0
    /\ fc.display[4].Predicted > 0

\* C3: naive_forecast returns H equal values: 0 for the empty frame, otherwise the
\* mean of the last min(7, n) daily quantities rounded to a nearest integer; for a
\* one-day series that is the day's quantity.
C3_NaiveConstant ==
    fc.strategy = "fallback" =>
        LET h == fc.prod_hist
            n == Len(h)
            H == fc.input.days
            w == Min2(7, n)
            S == SumAt(h, (n - w + 1)..n)
        IN  /\ Len(fc.display) = H
            /\ \A i \in 1..H :
                 LET v == fc.display[i].Predicted
                 IN  /\ v \in Nat
                     /\ v = fc.display[1].Predicted
                     /\ n = 0 => v = 0
                     /\ n > 0 => /\ 2 * (w * v - S) <= w
                                 /\ 2 * (S - w * v) <= w
                     /\ n = 1 => v = h[1].Quantity

\* C3 witness: a series longer than the window whose first day would change the
\* rounded mean if it were counted
C3_Witness ==
    /\ fc.strategy = "fallback"
    /\ Len(fc.prod_hist) = 8
    /\ fc.prod_hist[1].Quantity = 0
    /\ SumAt(fc.prod_hist, 2..8) = 4
    /\ fc.display[1].Predicted = 1

\* C4: the daily series of the selected product has one entry for every calendar
\* day from its earliest to its latest event date, in increasing order, each with
\* the sum of the product's event quantities on that day (0 when there is none),
\* so that the series sums to the product's total quantity.
C4_DailySeries ==
    fc.shown =>
        LET p == fc.input.product
            h == fc.prod_hist
            first == SetMin(EventDates(p))
            last == SetMax(EventDates(p))
        IN  /\ EventsOf(p) # {}
            /\ Len(h) = ((last - first) \div Day) + 1
            /\ \A i \in 1..Len(h) :
                 /\ h[i].Date = first + (i - 1) * Day
                 /\ h[i].Quantity =
                      SumAt(sales_data, {k \in EventsOf(p) : sales_data[k].Date = h[i].Date})
            /\ SumAt(h, DOMAIN h) = SumAt(sales_data, EventsOf(p))

\* C4 witness: two events of the product several days apart, the days between
\* them filled with 0
C4_Witness ==
    /\ fc.shown
    /\ Len(fc.prod_hist) = 4
    /\ fc.prod_hist[1].Quantity = 2
    /\ fc.prod_hist[2].Quantity = 0
    /\ fc.prod_hist[3].Quantity = 0
    /\ fc.prod_hist[4].Quantity = 1

\* C8: Prophet is attempted exactly when it is available and the series has at
\* least 2 points; its result is displayed only when the attempt succeeded; in
\* every other case, a failed attempt included, the page displays the result of
\* naive_forecast: a forecast of H points is always displayed.
C8_Dispatch ==
    fc.shown =>
        /\ fc.attempted = (USE_PROPHET /\ Len(fc.prod_hist) >= 2)
        /\ fc.strategy \in {"prophet", "fallback", "fallback_after_failure"}
        /\ (fc.strategy = "prophet") = (fc.attempted /\ fc.input.ph.ok)
        /\ (fc.strategy = "fallback_after_failure") = (fc.attempted /\ ~fc.input.ph.ok)
        /\ fc.strategy # "prophet" =>
              fc.display = naive_forecast(fc.prod_hist, fc.input.days, fc.input.now)
        /\ Len(fc.display) = fc.input.days

\* C8 witness: Prophet was available, was attempted and raised; the page shows
\* the fallback forecast
C8_Witness ==
    /\ fc.shown
    /\ USE_PROPHET
    /\ fc.attempted
    /\ ~fc.input.ph.ok
    /\ fc.strategy = "fallback_after_failure"
    /\ Len(fc.display) = MinHorizon

\* the alarm level of the Forecasting page: its only alarm, LOW STOCK, counts for
\* Critical and for Low alike
Alarm(health) == health \in {"Critical", "Low"}

\* C2: on the Forecasting page, with reorder_point = mean of the forecast * lead
\* time, the stock health is Critical when current_stock <= 0, otherwise Low when
\* current_stock < reorder_point, otherwise Healthy; stock 0 is never reported
\* as OK.
C2_ForecastHealth ==
    fc.shown =>
        LET health == IF fc.current_stock <= 0 THEN "Critical"
                      ELSE IF fc.current_stock * fc.reorder_point.den
                                < fc.reorder_point.num
                           THEN "Low"
                           ELSE "Healthy"
        IN  /\ fc.reorder_point.num * Len(fc.display)
                 = SumPredicted(fc.display) * fc.input.lead * fc.reorder_point.den
            /\ (fc.banner = "LOW STOCK") = Alarm(health)
            /\ (fc.banner = "Stock is OK") = (health = "Healthy")

\* the calendar day of a timestamp, and the window [today - window_days, today]
InWindow(date, now, window_days) ==
    /\ date >= FloorDay(now) - window_days * Day
    /\ date <= FloorDay(now)

\* C5: in the dashboard summary SoldRecent of a product is the sum of the
\* quantities of its events dated within [today - window_days, today], events
\* before the window and events after today both excluded, and AvgDailyRecent is
\* SoldRecent / window_days.
C5_RecentWindow ==
    dash.shown =>
        \A p \in DOMAIN dash.summary :
            LET row == dash.summary[p]
                w == dash.input.window_days
            IN  /\ row.SoldRecent =
                     SumAt(sales_data,
                           {k \in EventsOf(p) :
                              InWindow(sales_data[k].Date, dash.input.now, w)})
                /\ row.AvgDailyRecent.num * (IF w > 0 THEN w ELSE 1)
                     = row.SoldRecent * row.AvgDailyRecent.den

UserEdit(r) == r.kind \in {"add_sale", "edit_stock"}

TrimmedFrom(prod, text) ==
    /\ prod # <<>>
    /\ Head(prod) # Blank
    /\ prod[Len(prod)] # Blank
    /\ \E i \in 0..Len(text) :
         /\ i + Len(prod) <= Len(text)
         /\ prod = SubSeq(text, i + 1, i + Len(prod))
         /\ \A k \in 1..i : text[k] = Blank
         /\ \A k \in (i + Len(prod) + 1)..Len(text) : text[k] = Blank

AllBlank(text) == \A k \in DOMAIN text : text[k] = Blank

\* C9: the ledger is append-only: Add Sale with a non-blank product name appends
\* one event (date, trimmed product, quantity >= 1) and leaves the earlier events
\* in place; Add Sale with a blank name changes nothing; no other run changes the
\* ledger.
C9_AppendOnly ==
    [][/\ run'.kind # "add_sale" => sales_data' = sales_data
       /\ (run'.kind = "add_sale" /\ AllBlank(run'.text)) => sales_data' = sales_data
       /\ (run'.kind = "add_sale" /\ ~AllBlank(run'.text)) =>
            /\ Len(sales_data') = Len(sales_data) + 1
            /\ SubSeq(sales_data', 1, Len(sales_data)) = sales_data
            /\ LET e == sales_data'[Len(sales_data')]
               IN  /\ e.Date = run'.date
                   /\ e.Quantity = run'.qty
                   /\ e.Quantity >= 1
                   /\ TrimmedFrom(e.Product, run'.text)]_vars

\* C9 witness: a second sale, typed with blanks around the name, appended after
\* the first
C9_Witness ==
    /\ run.kind = "add_sale"
    /\ run.text = <<Blank, "Tea", Blank>>
    /\ Len(sales_data) = 2
    /\ sales_data[1].Product = <<"Milk">>
    /\ sales_data[2] = [Date |-> 0, Product |-> <<"Tea">>, Quantity |-> 2]

\* C10: send_gmail_alert returns (success, message) and never raises: disabled
\* alerts, a missing sender, password or recipient, and a transport error give
\* success = False, only a completed send gives True; the mail server is not
\* contacted when alerts are disabled or a field is missing; and the run of the
\* click leaves the ledger, the stock map and the displayed forecast unchanged.
C10_AlertOutcome ==
    /\ [](\A a \in AlertInputs :
            LET off == send_gmail_alert(FALSE, a.secrets, a.inputs, a.smtpOk)
            IN  off.called /\ ~off.success /\ ~off.smtp /\ ~off.raised /\ off.msg # "")
    /\ [](fc.alert.called =>
            LET c == fc.click
                complete == /\ c.secrets.gmail_id \/ c.inputs.gmail_id
                            /\ c.secrets.gmail_pass \/ c.inputs.gmail_pass
                            /\ c.secrets.recipient \/ c.inputs.recipient
            IN  /\ run.kind = "send_alert"
                /\ ~fc.alert.raised
                /\ fc.alert.msg # ""
                /\ fc.alert.success = (fc.input.enable_email /\ complete /\ c.smtpOk)
                /\ fc.alert.smtp = (fc.input.enable_email /\ complete))
    /\ [][run'.kind = "send_alert" =>
            /\ fc'.alert.called
            /\ sales_data' = sales_data
            /\ stock' = stock
            /\ fc'.display = fc.display]_vars

\* C10 witness: a click whose send completed, the sender taken from the secrets
\* and the password from the sidebar
C10_Witness ==
    /\ run.kind = "send_alert"
    /\ fc.alert.called
    /\ fc.alert.success
    /\ fc.alert.smtp
    /\ ~fc.click.secrets.gmail_pass

\* C11: the displayed page is forced_page when it is set and the sidebar
\* selection otherwise; forced_page starts as None, changes only at a click on a
\* bottom-navigation button, which sets it to a page, and is never reset to
\* None; so once it is set, a run triggered by anything but a bottom-navigation
\* click, a change of the sidebar menu included, displays the same page as
\* before.
C11_PageSelection ==
    /\ [](page = IF forced_page # "None" THEN forced_page ELSE sidebar_page)
    /\ [](run.kind = "start" => forced_page = "None")
    /\ [][forced_page' # forced_page => (run'.kind = "nav" /\ forced_page' \in Pages)]_vars
    /\ [][forced_page # "None" => forced_page' # "None"]_vars
    /\ [][(forced_page # "None" /\ run'.kind # "nav") =>
            (page' = page /\ page' = forced_page)]_vars
    /\ [][(forced_page = "None" /\ run'.kind # "nav") => page' = sidebar_page']_vars

\* C11 witness: after a bottom-navigation click to Forecasting on an empty
\* ledger, the sidebar menu was changed to Reports and Forecasting is still
\* displayed
C11_Witness ==
    /\ sales_data = <<>>
    /\ forced_page = "Forecasting"
    /\ sidebar_page = "Reports"
    /\ run.kind = "widget"
    /\ page = "Forecasting"
    /\ stopped

====
